---- MODULE Spec2Model ----
(***************************************************************************)
(* Model of kite-test's test orchestration core:                           *)
(*   core/testlib.py  wait(), MachineCase, TapRunner                        *)
(*   core/timeout.py  Timeout                                               *)
(*                                                                         *)
(* Specifications:                                                         *)
(*   Spec         test cases of MachineCase run one after the other under   *)
(*                unittest: setUp, test method, tearDown, doCleanups        *)
(*   SpecJournal  the allow-list and the journal scan over the test cases   *)
(*                of one process                                            *)
(*   SpecScan     check_journal_messages on its own: the loop over the      *)
(*                records, the copies made on failure, the Error raised     *)
(*   SpecRunner   TapRunner.run over a testable: collapse, runOne for each  *)
(*                test, the report and the exit code                        *)
(*   SpecRestore  restore_file and the files of the machine over one test  *)
(*                case and its unwind                                       *)
(*   SpecWait     wait(func, msg, delay, tries) over scripted probes        *)
(*   SpecTimeout  Timeout guards around the SIGALRM alarm of the process    *)
(***************************************************************************)
EXTENDS Integers, Sequences, FiniteSets, TLC

(***************************************************************************)
(* Bounds                                                                  *)
(***************************************************************************)
MaxTries == 3
MaxDelay == 2
NumGuards == 2
MaxSeconds == 2
MaxTests == 2
MaxAllowCalls == 1
MaxRecords == 2
MaxBodyOps == 2
MaxSuite == 2
MaxSubSkips == 1
MaxFileOps == 3

(***************************************************************************)
(* wait(): state                                                           *)
(*   script    what the probe does on its n-th call                         *)
(*   tries, delay, msg   the arguments of wait                              *)
(*   t         the loop counter                                            *)
(*   calls     number of probe invocations so far                           *)
(*   sleeps    number of time.sleep(delay) calls so far                     *)
(*   wpc       position inside wait                                         *)
(*   wresult   how wait ended                                               *)
(***************************************************************************)
VARIABLES script, tries, delay, msg, t, calls, sleeps, wpc, wresult

waitVars == <<script, tries, delay, msg, t, calls, sleeps, wpc, wresult>>

(***************************************************************************)
(* Timeout: state                                                          *)
(*   handler      disposition of SIGALRM: SIG_DFL or the guard whose        *)
(*                handle_timeout is installed                               *)
(*   alarmLeft    seconds until the pending alarm fires, 0 = none pending   *)
(*   gst          life of each Timeout object                               *)
(*   seconds, error_message, gmachine   attributes of each Timeout object   *)
(*   stack        the guards whose with-block is being executed             *)
(*   exc          the exception propagating in the main thread, "" = none   *)
(*   ssh_process, connected   the machine handed to the guards              *)
(*   history: exitedBy, handlerRuns, raisedMsg, raisedInside, firedWithSsh, *)
(*            termBy, discBy, exitSnap                                      *)
(***************************************************************************)
VARIABLES handler, alarmLeft, gst, seconds, error_message, gmachine, stack,
          exc, ssh_process, connected,
          exitedBy, handlerRuns, raisedMsg, raisedInside, firedWithSsh,
          termBy, discBy, exitSnap

timeoutVars == <<handler, alarmLeft, gst, seconds, error_message, gmachine,
                 stack, exc, ssh_process, connected,
                 exitedBy, handlerRuns, raisedMsg, raisedInside, firedWithSsh,
                 termBy, discBy, exitSnap>>

(***************************************************************************)
(* MachineCase: state                                                      *)
(*   allowed_messages  the list held by the class attribute                 *)
(*   testNo       number of the test case that is running                   *)
(*   phase        where the running test case is                            *)
(*   scan         what the last check_journal_messages of the test did      *)
(*   errors       self._outcome.errors: the phases that raised              *)
(*   tmpdir       the local temporary directory of the test                 *)
(*   ssh_reachable, journal_start, start_marker   the machine of the test   *)
(*   booted       how machine.wait_boot() of setUp ended                    *)
(*   cleanups     the stack kept by addCleanup                              *)
(*   history: added (patterns the test passed to allow_journal_messages),   *)
(*            allowCalls, bodyOps, registered, executed                     *)
(***************************************************************************)
VARIABLES allowed_messages, testNo, phase, scan, added, allowCalls

journalVars == <<allowed_messages, testNo, phase, scan, added, allowCalls>>

VARIABLES errors, tmpdir, ssh_reachable, journal_start, start_marker,
          booted, cleanups, registered, executed, bodyOps

caseVars == <<errors, tmpdir, ssh_reachable, journal_start, start_marker,
              booted, cleanups, registered, executed, bodyOps>>

(***************************************************************************)
(* TapRunner.run: state                                                    *)
(*   testable     the argument of run: a test case or a nested suite        *)
(*   tests        the flattened list, as far as not yet run                 *)
(*   test_count, failures, skips   the locals of run                        *)
(*   rpc          position inside run                                       *)
(*   exitCode     the value run returns                                     *)
(*   summary      the last line run writes to stdout                        *)
(*   history: report (what runOne did for each test, in the order run)      *)
(***************************************************************************)
VARIABLES testable, tests, test_count, failures, skips, rpc, exitCode,
          summary, report

runnerVars == <<testable, tests, test_count, failures, skips, rpc, exitCode,
                summary, report>>

(***************************************************************************)
(* The machine's file system: state                                        *)
(*   files        what each remote path holds, "absent" when it is not      *)
(*                there; the backups under vm_tmpdir are paths of it        *)
(*   history: original (what a path held when restore_file was first        *)
(*            called for it, "untracked" before that)                       *)
(***************************************************************************)
VARIABLES files, original

remoteVars == <<files, original>>

vars == <<waitVars, timeoutVars, journalVars, caseVars, runnerVars, remoteVars>>

(***************************************************************************)
(* Timeout: constants                                                       *)
(***************************************************************************)
Guards == 1..NumGuards

SIG_DFL == 0

\* self.seconds = None
NoneSec == -1

\* error_message: the default of __init__, or a message of the caller
ErrorMessages == {"Timeout", "custom timeout"}

\* The first guard is built with the default message, the others with their own.
ErrorMessageOf(g) == IF g = 1 THEN "Timeout" ELSE "custom timeout"

NoSnap == [alarm |-> -1, handler |-> -1]

TimeoutIdle ==
    /\ handler = SIG_DFL
    /\ alarmLeft = 0
    /\ gst = [g \in Guards |-> "new"]
    /\ seconds = [g \in Guards |-> NoneSec]
    /\ error_message = [g \in Guards |-> "unset"]
    /\ gmachine = [g \in Guards |-> "unset"]
    /\ stack = <<>>
    /\ exc = ""
    /\ ssh_process = "None"
    /\ connected = TRUE
    /\ exitedBy = [g \in Guards |-> ""]
    /\ handlerRuns = [g \in Guards |-> 0]
    /\ raisedMsg = [g \in Guards |-> ""]
    /\ raisedInside = [g \in Guards |-> FALSE]
    /\ firedWithSsh = [g \in Guards |-> FALSE]
    /\ termBy = [g \in Guards |-> 0]
    /\ discBy = [g \in Guards |-> 0]
    /\ exitSnap = [g \in Guards |-> NoSnap]


(***************************************************************************)
(* MachineCase: constants                                                  *)
(***************************************************************************)
\* allowed_messages as the class body leaves it: the literal list plus the
\* split of an unset TEST_ALLOW_JOURNAL_MESSAGES, which is [""]
DefaultAllowedMessages ==
    << "-- Reboot --",
       "10.*: dropping message while waiting for child to exit",
       "(audit: )?type=1403 audit.*",
       "(audit: )?type=1404 audit.*",
       "Failed to send coredump datagram:.*",
       "Failed to seek to cursor: Invalid argument",
       "" >>

\* No check_journal_messages has run in this test
NoScan == [ran |-> FALSE, messages |-> <<>>, before |-> <<>>, allowed |-> <<>>,
           verdicts |-> <<>>, all_found |-> TRUE, first |-> <<>>, printed |-> <<>>,
           raised |-> FALSE, core |-> FALSE, reach |-> FALSE, events |-> <<>>]

JournalIdle ==
    /\ allowed_messages = DefaultAllowedMessages
    /\ testNo = 0
    /\ phase = "idle"
    /\ scan = NoScan
    /\ added = <<>>
    /\ allowCalls = 0

\* self.vm_tmpdir = "/var/lib/kite_test"
vm_tmpdir == <<"/", "var", "/", "lib", "/", "kite_test">>

\* The remote paths the modelled tests hand to restore_file
Paths == {<<"/", "a", "/", "b">>, <<"/", "a", "_", "b">>}

\* path.replace('/', '_')
ReplaceSlashes(path) ==
    [k \in 1..Len(path) |-> IF path[k] = "/" THEN "_" ELSE path[k]]

\* backup = os.path.join(self.vm_tmpdir, path.replace('/', '_'))
Backup(path) == vm_tmpdir \o <<"/">> \o ReplaceSlashes(path)

BackupPaths == {Backup(p) : p \in Paths}

RemoteIdle ==
    /\ files = [p \in Paths \cup BackupPaths |-> "absent"]
    /\ original = [p \in Paths |-> "untracked"]

NoSummary == [kind |-> "none", shown |-> 0]

RunnerIdle ==
    /\ testable = <<>>
    /\ tests = <<>>
    /\ test_count = 0
    /\ failures = 0
    /\ skips = <<>>
    /\ rpc = "idle"
    /\ exitCode = -1
    /\ summary = NoSummary
    /\ report = <<>>

CaseIdle ==
    /\ errors = <<>>
    /\ tmpdir = "none"
    /\ ssh_reachable = FALSE
    /\ journal_start = "None"
    /\ start_marker = FALSE
    /\ booted = "not called"
    /\ cleanups = <<>>
    /\ registered = <<>>
    /\ executed = <<>>
    /\ bodyOps = 0

(***************************************************************************)
(* wait(): definitions                                                     *)
(***************************************************************************)
\* What one call of the probe can do: raise an Exception, or return a value.
\* "v0" is a falsy value, "v1" and "v2" are truthy values.
ProbeOutcomes == {"raise", "v0", "v1", "v2"}

\* A probe result test that takes every returned value for a success.
TruthyNotNone(o) == o \in {"v0", "v1", "v2"}

\* if val:
Truthy(o) == o \in {"v1", "v2"}

\* msg argument: "None" is the default (no message), "" an empty string.
Msgs == {"None", "", "custom message"}

DefaultMsg == "Condition did not become true."

NoResult == [kind |-> "running", val |-> "", call |-> 0]

\* A timeout that drops the caller's message.
MsgIgnored(m) == DefaultMsg

\* msg or "Condition did not become true."
MsgOrDefault(m) == IF m \in {"None", ""} THEN DefaultMsg ELSE m

\* An off-by-one last-attempt test: no attempt is ever the last one.
LastAttemptOffByOne(tt, n) == tt = n

\* if t == tries - 1: raise
LastAttempt(tt, n) == tt = n - 1

WaitIdle ==
    /\ script = [i \in 1..MaxTries |-> "v0"]
    /\ tries = 0
    /\ delay = 1
    /\ msg = "None"
    /\ t = 0
    /\ calls = 0
    /\ sleeps = 0
    /\ wpc = "idle"
    /\ wresult = NoResult

InitWait ==
    /\ TimeoutIdle
    /\ JournalIdle
    /\ CaseIdle
    /\ RunnerIdle
    /\ RemoteIdle
    /\ script \in [1..MaxTries -> ProbeOutcomes]
    /\ tries \in 0..MaxTries
    /\ delay \in 1..MaxDelay
    /\ msg \in Msgs
    /\ t = 0
    /\ calls = 0
    /\ sleeps = 0
    /\ wpc = "loop"
    /\ wresult = NoResult

\* One pass through the try block of the while loop: call func(), return a
\* truthy value, re-raise on the last attempt, otherwise count the attempt.
WaitAttempt ==
    /\ wpc = "loop"
    /\ t < tries
    /\ calls' = calls + 1
    /\ LET o == script[calls + 1] IN
         IF o = "raise"
         THEN IF LastAttempt(t, tries)
              THEN /\ wresult' = [kind |-> "probe_error", val |-> "", call |-> calls + 1]
                   /\ wpc' = "done"
                   /\ t' = t
              ELSE /\ wresult' = wresult
                   /\ wpc' = "sleep"
                   /\ t' = t + 1
         ELSE IF Truthy(o)
              THEN /\ wresult' = [kind |-> "return", val |-> o, call |-> calls + 1]
                   /\ wpc' = "done"
                   /\ t' = t
              ELSE /\ wresult' = wresult
                   /\ wpc' = "sleep"
                   /\ t' = t + 1
    /\ UNCHANGED <<script, tries, delay, msg, sleeps>>
    /\ UNCHANGED <<remoteVars, runnerVars, timeoutVars, journalVars, caseVars>>

\* time.sleep(delay)
WaitSleep ==
    /\ wpc = "sleep"
    /\ sleeps' = sleeps + 1
    /\ wpc' = "loop"
    /\ UNCHANGED <<script, tries, delay, msg, t, calls, wresult>>
    /\ UNCHANGED <<remoteVars, runnerVars, timeoutVars, journalVars, caseVars>>

\* raise Error(msg or "Condition did not become true.")
WaitExhausted ==
    /\ wpc = "loop"
    /\ ~(t < tries)
    /\ wresult' = [kind |-> "timeout_error", val |-> MsgOrDefault(msg), call |-> 0]
    /\ wpc' = "done"
    /\ UNCHANGED <<script, tries, delay, msg, t, calls, sleeps>>
    /\ UNCHANGED <<remoteVars, runnerVars, timeoutVars, journalVars, caseVars>>

NextWait == WaitAttempt \/ WaitSleep \/ WaitExhausted

SpecWait == InitWait /\ [][NextWait]_vars

(***************************************************************************)
(* wait(): properties                                                      *)
(***************************************************************************)
\* The probe returns a falsy value on its first k calls and a truthy one on
\* call k+1.
FalsyThenTruthy(k) ==
    /\ k < tries
    /\ \A i \in 1..k : script[i] = "v0"
    /\ script[k + 1] \in {"v1", "v2"}

\* No call among the first n returns a truthy value.
NoTruthy(n) == \A i \in 1..n : script[i] \in {"raise", "v0"}

\* The probe raises on every call.
AlwaysRaises == \A i \in 1..MaxTries : script[i] = "raise"

\* C5: a probe that is falsy on its first k calls (k < tries) and truthy on
\* call k+1 makes wait return that truthy value after exactly k+1 probe
\* invocations and exactly k sleeps.
Thm_C5_ReturnsFirstTruthy ==
    \A k \in 0..(MaxTries - 1) :
        (wpc = "done" /\ FalsyThenTruthy(k)) =>
            /\ wresult.kind = "return"
            /\ wresult.val = script[k + 1]
            /\ calls = k + 1
            /\ sleeps = k

Wit_C5_ReturnsFirstTruthy ==
    /\ wpc = "done"
    /\ FalsyThenTruthy(2)
    /\ wresult.kind = "return"
    /\ sleeps = 2

\* The probe's exception leaves wait only on attempt number `tries`, and it
\* does so whenever that attempt is reached and raises.
RaisesOnlyOnLastAttempt ==
    wpc = "done" =>
        /\ wresult.kind = "probe_error" => (wresult.call = tries /\ calls = tries)
        /\ (tries >= 1 /\ NoTruthy(tries - 1) /\ script[tries] = "raise")
               => wresult.kind = "probe_error"

\* C6 as stated: exceptions are swallowed on every attempt but the last, and
\* a probe that raises on every call makes wait fail with the probe's own
\* error after exactly `tries` invocations, never with the timeout Error.
Cex_C6_AlwaysRaisingProbe ==
    /\ RaisesOnlyOnLastAttempt
    /\ (wpc = "done" /\ AlwaysRaises) =>
           /\ wresult.kind = "probe_error"
           /\ calls = tries

\* C6 amended: the same, for tries >= 1 (with tries = 0 the probe is never
\* called and wait fails with the timeout Error).
Thm_C6_AlwaysRaisingProbe ==
    /\ RaisesOnlyOnLastAttempt
    /\ (wpc = "done" /\ AlwaysRaises /\ tries >= 1) =>
           /\ wresult.kind = "probe_error"
           /\ wresult.call = tries
           /\ calls = tries
           /\ sleeps = tries - 1
    /\ (wpc = "done" /\ tries = 0) =>
           /\ wresult.kind = "timeout_error"
           /\ calls = 0

Wit_C6_AlwaysRaisingProbe ==
    /\ wpc = "done"
    /\ AlwaysRaises
    /\ tries = MaxTries
    /\ wresult.kind = "probe_error"
    /\ calls = MaxTries

\* C7: when no attempt yields a truthy value and the last attempt does not
\* raise, wait fails with the timeout Error carrying msg (the default message
\* when msg is None or empty) after exactly `tries` probe invocations; this
\* includes tries = 0.
Thm_C7_TimeoutError ==
    (wpc = "done" /\ NoTruthy(tries) /\ (tries = 0 \/ script[tries] # "raise")) =>
        /\ wresult.kind = "timeout_error"
        /\ wresult.val = (IF msg = "custom message" THEN "custom message"
                          ELSE "Condition did not become true.")
        /\ calls = tries
        /\ sleeps = tries

Wit_C7_TimeoutError ==
    /\ wpc = "done"
    /\ tries = MaxTries
    /\ script[1] = "raise"
    /\ script[MaxTries] = "v0"
    /\ wresult.kind = "timeout_error"
    /\ wresult.val = "custom message"

(***************************************************************************)
(* Journal messages and allow-list patterns                                *)
(*                                                                         *)
(* A message is a sequence of symbols.  A symbol is either one character   *)
(* ("a", "b", " ") or a piece of text that the patterns of testlib.py      *)
(* spell out literally.  A pattern is kept in the state as the string the  *)
(* program appends to allowed_messages; Compile gives its syntax tree.     *)
(***************************************************************************)
Lit(c) == <<"lit", c>>
Dot == <<"dot">>
Star(r) == <<"star", r>>
Opt(r) == <<"opt", r>>
Alt(l, r) == <<"alt", l, r>>
Cat(rs) == <<"cat", rs>>

RECURSIVE Ends(_, _, _), CatFrom(_, _, _), StarFrom(_, _, _, _)

\* The positions at which a match of r that starts at position i of s can
\* end, in the order in which the backtracking matcher of re tries them:
\* alternatives left to right, ? and * greedy.
Ends(r, s, i) ==
    CASE r[1] = "lit"  -> IF i <= Len(s) /\ s[i] = r[2] THEN <<i + 1>> ELSE <<>>
      [] r[1] = "dot"  -> IF i <= Len(s) THEN <<i + 1>> ELSE <<>>
      [] r[1] = "opt"  -> Ends(r[2], s, i) \o <<i>>
      [] r[1] = "alt"  -> Ends(r[2], s, i) \o Ends(r[3], s, i)
      [] r[1] = "cat"  -> IF r[2] = <<>> THEN <<i>>
                          ELSE CatFrom(Ends(Head(r[2]), s, i), Tail(r[2]), s)
      [] r[1] = "star" -> StarFrom(Ends(r[2], s, i), r, s, i) \o <<i>>

CatFrom(es, rest, s) ==
    IF es = <<>> THEN <<>>
    ELSE Ends(Cat(rest), s, Head(es)) \o CatFrom(Tail(es), rest, s)

StarFrom(es, r, s, i) ==
    IF es = <<>> THEN <<>>
    ELSE (IF Head(es) > i THEN Ends(r, s, Head(es)) ELSE <<>>)
            \o StarFrom(Tail(es), r, s, i)

\* re.compile: the patterns that testlib.py and the modelled tests use
Compile(p) ==
    CASE p = "-- Reboot --" -> Lit("-- Reboot --")
      [] p = "10.*: dropping message while waiting for child to exit" ->
            Cat(<<Lit("10"), Star(Dot),
                  Lit(": dropping message while waiting for child to exit")>>)
      [] p = "(audit: )?type=1403 audit.*" ->
            Cat(<<Opt(Lit("audit: ")), Lit("type=1403 audit"), Star(Dot)>>)
      [] p = "(audit: )?type=1404 audit.*" ->
            Cat(<<Opt(Lit("audit: ")), Lit("type=1404 audit"), Star(Dot)>>)
      [] p = "Failed to send coredump datagram:.*" ->
            Cat(<<Lit("Failed to send coredump datagram:"), Star(Dot)>>)
      [] p = "Failed to seek to cursor: Invalid argument" ->
            Lit("Failed to seek to cursor: Invalid argument")
      [] p = "" -> Cat(<<>>)
      [] p = "Process .* of user .* dumped core.*" ->
            Cat(<<Lit("Process "), Star(Dot), Lit(" of user "), Star(Dot),
                  Lit(" dumped core"), Star(Dot)>>)
      [] p = ".*: .* host key for server is not known: .*" ->
            Cat(<<Star(Dot), Lit(": "), Star(Dot),
                  Lit(" host key for server is not known: "), Star(Dot)>>)
      [] p = ".*: refusing to connect to unknown host: .*" ->
            Cat(<<Star(Dot), Lit(": refusing to connect to unknown host: "), Star(Dot)>>)
      [] p = ".*: failed to retrieve resource: hostkey-unknown" ->
            Cat(<<Star(Dot), Lit(": failed to retrieve resource: hostkey-unknown")>>)
      [] p = ".*Connection reset by peer.*" ->
            Cat(<<Star(Dot), Lit("Connection reset by peer"), Star(Dot)>>)
      [] p = "connection unexpectedly closed by peer" ->
            Lit("connection unexpectedly closed by peer")
      [] p = "peer did not close io when expected" ->
            Lit("peer did not close io when expected")
      [] p = "request timed out, closing" -> Lit("request timed out, closing")
      [] p = ".*: failed to retrieve resource: terminated" ->
            Cat(<<Star(Dot), Lit(": failed to retrieve resource: terminated")>>)
      [] p = "a.*" -> Cat(<<Lit("a"), Star(Dot)>>)
      [] p = "a|ab" -> Alt(Lit("a"), Cat(<<Lit("a"), Lit("b")>>))

HostkeyPatterns ==
    << ".*: .* host key for server is not known: .*",
       ".*: refusing to connect to unknown host: .*",
       ".*: failed to retrieve resource: hostkey-unknown" >>

RestartPatterns ==
    << ".*Connection reset by peer.*",
       "connection unexpectedly closed by peer",
       "peer did not close io when expected",
       "request timed out, closing",
       ".*: failed to retrieve resource: terminated" >>

CoreDumpPattern == "Process .* of user .* dumped core.*"

\* The patterns the modelled tests hand to allow_journal_messages
TestPatterns == {"a.*", "a|ab"}

StackTraceRecord == <<"Failed to generate stack trace: (null)">>

CoreDumpRecord == <<"Process ", "a", " of user ", "b", " dumped core", "a">>

\* The log records the machine can return
JournalRecords ==
    { StackTraceRecord,
      CoreDumpRecord,
      <<"a", "b">>,
      <<" ", "-- Reboot --", " ">>,
      <<"-- Reboot --", "a">>,
      <<" ">> }

RECURSIVE LStrip(_), RStrip(_)

LStrip(m) == IF m # <<>> /\ Head(m) = " " THEN LStrip(Tail(m)) ELSE m

RStrip(m) ==
    IF m # <<>> /\ m[Len(m)] = " " THEN RStrip(SubSeq(m, 1, Len(m) - 1)) ELSE m

\* m.strip()
Strip(m) == RStrip(LStrip(m))

\* match = re.match(p, m); match and match.group(0) == m
EntireMatch(p, m) ==
    LET es == Ends(Compile(p), m, 1)
    IN  es # <<>> /\ Head(es) = Len(m) + 1

\* for p in self.allowed_messages: ... found = True; break
Found(allowed, m) == \E k \in 1..Len(allowed) : EntireMatch(allowed[k], m)

\* One pass of the for loop of check_journal_messages over a raw message
ScanOne(st, raw) ==
    LET m == Strip(raw)
    IN  IF m = <<>>
        THEN [st EXCEPT !.verdicts = Append(@, "empty")]
        ELSE IF m = StackTraceRecord
        THEN [st EXCEPT !.allowed = Append(@, CoreDumpPattern),
                        !.verdicts = Append(@, "stack trace")]
        ELSE IF Found(st.allowed, m)
        THEN [st EXCEPT !.verdicts = Append(@, "expected")]
        ELSE [st EXCEPT !.all_found = FALSE,
                        !.first = IF @ = <<>> THEN m ELSE @,
                        !.printed = Append(@, m),
                        !.verdicts = Append(@, "anomalous"),
                        !.raised = TRUE]

RECURSIVE ScanLoopStopsAtFirst(_, _)

\* A loop that leaves at the first message no pattern matches.
ScanLoopStopsAtFirst(st, messages) ==
    IF messages = <<>> \/ ~st.all_found THEN st
    ELSE ScanLoopStopsAtFirst(ScanOne(st, Head(messages)), Tail(messages))

RECURSIVE ScanLoop(_, _)

\* for m in messages: ...
ScanLoop(st, messages) ==
    IF messages = <<>> THEN st
    ELSE ScanLoop(ScanOne(st, Head(messages)), Tail(messages))

\* allow_core_dumps as the class body of MachineCase sets it
allow_core_dumps == FALSE

\* copy_journal("FAIL"): the journal is exported if the machine is reachable
CopyJournal(reach) == IF reach THEN <<"journalctl|gzip">> ELSE <<>>

\* copy_cores("FAIL"): nothing when core dumps are allowed, else the dumps
\* are downloaded if the machine is reachable
CopyCores(core, reach) ==
    IF core THEN <<>>
    ELSE IF reach THEN <<"download_dir coredump">> ELSE <<>>

\* if not all_found: copy_journal, copy_cores, raise Error
ScanEnd(st) ==
    IF st.all_found THEN st
    ELSE [st EXCEPT !.events = CopyJournal(st.reach)
                                   \o CopyCores(st.core, st.reach)
                                   \o <<"raise Error">>]

\* check_journal_messages over the messages read from the machine, starting
\* with the list allowed_messages holds at that moment; core is the value of
\* allow_core_dumps and reach what machine.ssh_reachable says when the
\* copies are made; it raises Error when all_found is false at the end of
\* the loop
Scan(allowed, messages, core, reach) ==
    ScanEnd(ScanLoop([ran |-> TRUE, messages |-> messages, before |-> allowed,
                      allowed |-> allowed, verdicts |-> <<>>, all_found |-> TRUE,
                      first |-> <<>>, printed |-> <<>>, raised |-> FALSE,
                      core |-> core, reach |-> reach, events |-> <<>>],
                     messages))

RECURSIVE SeqsUpTo(_, _)

\* All sequences over S of length at most n
SeqsUpTo(S, n) ==
    IF n = 0 THEN {<<>>}
    ELSE LET shorter == SeqsUpTo(S, n - 1)
         IN  shorter \cup {Append(q, x) : q \in shorter, x \in S}

\* What machine.journal_messages and machine.audit_messages can return
Journals == SeqsUpTo(JournalRecords, MaxRecords)

(***************************************************************************)
(* Timeout: actions                                                        *)
(***************************************************************************)
\* if self.seconds:
SecondsTruthy(sec) == sec # NoneSec /\ sec # 0

InitTimeout ==
    /\ WaitIdle
    /\ JournalIdle
    /\ CaseIdle
    /\ RunnerIdle
    /\ RemoteIdle
    /\ handler = SIG_DFL
    /\ alarmLeft = 0
    /\ gst = [g \in Guards |-> "new"]
    /\ seconds = [g \in Guards |-> NoneSec]
    /\ error_message = [g \in Guards |-> "unset"]
    /\ gmachine = [g \in Guards |-> "unset"]
    /\ stack = <<>>
    /\ exc = ""
    /\ ssh_process \in {"None", "running"}
    /\ connected = TRUE
    /\ exitedBy = [g \in Guards |-> ""]
    /\ handlerRuns = [g \in Guards |-> 0]
    /\ raisedMsg = [g \in Guards |-> ""]
    /\ raisedInside = [g \in Guards |-> FALSE]
    /\ firedWithSsh = [g \in Guards |-> FALSE]
    /\ termBy = [g \in Guards |-> 0]
    /\ discBy = [g \in Guards |-> 0]
    /\ exitSnap = [g \in Guards |-> NoSnap]

\* Timeout(seconds, error_message, machine): a guard constructed while a
\* handler other than SIG_DFL is installed keeps only seconds = None.
Construct(g, sec, em, m) ==
    /\ gst[g] = "new"
    /\ exc = ""
    /\ gst' = [gst EXCEPT ![g] = "constructed"]
    /\ IF handler # SIG_DFL
       THEN /\ seconds' = [seconds EXCEPT ![g] = NoneSec]
            /\ UNCHANGED <<error_message, gmachine>>
       ELSE /\ seconds' = [seconds EXCEPT ![g] = sec]
            /\ error_message' = [error_message EXCEPT ![g] = em]
            /\ gmachine' = [gmachine EXCEPT ![g] = m]
    /\ UNCHANGED <<handler, alarmLeft, stack, exc, ssh_process, connected,
                   exitedBy, handlerRuns, raisedMsg, raisedInside, firedWithSsh,
                   termBy, discBy, exitSnap>>
    /\ UNCHANGED <<remoteVars, runnerVars, waitVars, journalVars, caseVars>>

\* The body of __enter__
EnterEffect(g) ==
    IF SecondsTruthy(seconds[g])
    THEN /\ handler' = g
         /\ alarmLeft' = seconds[g]
    ELSE UNCHANGED <<handler, alarmLeft>>

\* with guard: the block is entered
Enter(g) ==
    /\ gst[g] = "constructed"
    /\ exc = ""
    /\ gst' = [gst EXCEPT ![g] = "entered"]
    /\ stack' = Append(stack, g)
    /\ EnterEffect(g)
    /\ UNCHANGED <<seconds, error_message, gmachine, exc, ssh_process, connected,
                   exitedBy, handlerRuns, raisedMsg, raisedInside, firedWithSsh,
                   termBy, discBy, exitSnap>>
    /\ UNCHANGED <<remoteVars, runnerVars, waitVars, journalVars, caseVars>>

\* An __exit__ that cancels the alarm but leaves handle_timeout installed.
ExitKeepsHandler(g) ==
    IF SecondsTruthy(seconds[g])
    THEN /\ alarmLeft' = 0
         /\ handler' = handler
    ELSE UNCHANGED <<handler, alarmLeft>>

\* An __exit__ that resets the alarm without looking at self.seconds.
ExitAlwaysResets(g) ==
    /\ alarmLeft' = 0
    /\ handler' = SIG_DFL

\* The body of __exit__
ExitEffect(g) ==
    IF SecondsTruthy(seconds[g])
    THEN /\ alarmLeft' = 0
         /\ handler' = SIG_DFL
    ELSE UNCHANGED <<handler, alarmLeft>>

\* The innermost with-block is left, by reaching its end or by an exception
\* passing through it; __exit__ returns None, so the exception goes on.
Exit(g) ==
    /\ stack # <<>>
    /\ stack[Len(stack)] = g
    /\ exc # "killed"
    /\ gst' = [gst EXCEPT ![g] = "exited"]
    /\ stack' = SubSeq(stack, 1, Len(stack) - 1)
    /\ ExitEffect(g)
    /\ exitedBy' = [exitedBy EXCEPT ![g] = IF exc = "" THEN "normal" ELSE "exception"]
    /\ exitSnap' = [exitSnap EXCEPT ![g] = [alarm |-> alarmLeft', handler |-> handler']]
    /\ UNCHANGED <<seconds, error_message, gmachine, exc, ssh_process, connected,
                   handlerRuns, raisedMsg, raisedInside, firedWithSsh,
                   termBy, discBy>>
    /\ UNCHANGED <<remoteVars, runnerVars, waitVars, journalVars, caseVars>>

\* The guarded code raises an exception of its own.
BodyRaise ==
    /\ stack # <<>>
    /\ exc = ""
    /\ exc' = "BodyError"
    /\ UNCHANGED <<handler, alarmLeft, gst, seconds, error_message, gmachine,
                   stack, ssh_process, connected,
                   exitedBy, handlerRuns, raisedMsg, raisedInside, firedWithSsh,
                   termBy, discBy, exitSnap>>
    /\ UNCHANGED <<remoteVars, runnerVars, waitVars, journalVars, caseVars>>

\* A try/except of the calling code catches the propagating exception.
Catch ==
    /\ exc # ""
    /\ exc # "killed"
    /\ exc' = ""
    /\ UNCHANGED <<handler, alarmLeft, gst, seconds, error_message, gmachine,
                   stack, ssh_process, connected,
                   exitedBy, handlerRuns, raisedMsg, raisedInside, firedWithSsh,
                   termBy, discBy, exitSnap>>
    /\ UNCHANGED <<remoteVars, runnerVars, waitVars, journalVars, caseVars>>

\* A second of the pending alarm passes without it firing.
Tick ==
    /\ alarmLeft > 1
    /\ exc # "killed"
    /\ alarmLeft' = alarmLeft - 1
    /\ UNCHANGED <<handler, gst, seconds, error_message, gmachine, stack,
                   exc, ssh_process, connected,
                   exitedBy, handlerRuns, raisedMsg, raisedInside, firedWithSsh,
                   termBy, discBy, exitSnap>>
    /\ UNCHANGED <<remoteVars, runnerVars, waitVars, journalVars, caseVars>>

\* handle_timeout of guard g: terminate the ssh process if there is one,
\* disconnect the machine, raise RuntimeError(error_message).
HandleTimeout(g) ==
    /\ handlerRuns' = [handlerRuns EXCEPT ![g] = @ + 1]
    /\ IF gmachine[g] = "m"
       THEN /\ IF ssh_process # "None"
               THEN /\ ssh_process' = "terminated"
                    /\ termBy' = [termBy EXCEPT ![g] = @ + 1]
               ELSE UNCHANGED <<ssh_process, termBy>>
            /\ connected' = FALSE
            /\ discBy' = [discBy EXCEPT ![g] = @ + 1]
       ELSE UNCHANGED <<ssh_process, termBy, connected, discBy>>
    /\ firedWithSsh' = [firedWithSsh EXCEPT ![g] = ssh_process # "None"]
    /\ exc' = error_message[g]
    /\ raisedMsg' = [raisedMsg EXCEPT ![g] = error_message[g]]
    /\ raisedInside' = [raisedInside EXCEPT ![g] = \E i \in 1..Len(stack) : stack[i] = g]

\* The pending alarm fires: SIGALRM is delivered to the installed handler;
\* under SIG_DFL the signal ends the process.
Expire ==
    /\ alarmLeft = 1
    /\ exc # "killed"
    /\ alarmLeft' = 0
    /\ IF handler = SIG_DFL
       THEN /\ exc' = "killed"
            /\ UNCHANGED <<ssh_process, connected, handlerRuns, raisedMsg,
                           raisedInside, firedWithSsh, termBy, discBy>>
       ELSE HandleTimeout(handler)
    /\ UNCHANGED <<handler, gst, seconds, error_message, gmachine, stack,
                   exitedBy, exitSnap>>
    /\ UNCHANGED <<remoteVars, runnerVars, waitVars, journalVars, caseVars>>

NextTimeout ==
    \/ \E g \in Guards, sec \in 0..MaxSeconds, m \in {"None", "m"} :
          Construct(g, sec, ErrorMessageOf(g), m)
    \/ \E g \in Guards : Enter(g)
    \/ \E g \in Guards : Exit(g)
    \/ BodyRaise
    \/ Catch
    \/ Tick
    \/ Expire

SpecTimeout == InitTimeout /\ [][NextTimeout]_vars

(***************************************************************************)
(* Timeout: properties                                                     *)
(***************************************************************************)
\* Guard g is inside its with-block and the pending alarm is its own.
HoldsAlarm(g) ==
    /\ gst[g] = "entered"
    /\ handler = g
    /\ alarmLeft > 0

\* C8 as stated: whenever a guard is entered while another guard's alarm is
\* pending, the pending alarm's deadline and handler stay those of the outer
\* guard, whatever the order in which the two guards were constructed.
Cex_C8_OuterDeadlineKept ==
    [][\A g \in Guards, h \in Guards :
          (g # h /\ HoldsAlarm(g) /\ gst[h] = "constructed" /\ gst'[h] = "entered")
             => (handler' = g /\ alarmLeft' = alarmLeft)]_vars

\* C9: when a guard's alarm expires inside its block, (a) the machine it was
\* given is disconnected exactly once and its ssh process, if there is one,
\* terminated exactly once, (b) a RuntimeError with the guard's error message
\* is raised while the guard's block is executing, and (c) right after the
\* guard's exit no alarm is pending and SIGALRM is back at SIG_DFL.
Thm_C9_ExpiryInterruptsAndResets ==
    \A g \in Guards :
        handlerRuns[g] > 0 =>
            /\ handlerRuns[g] = 1
            /\ gmachine[g] = "m" =>
                  /\ discBy[g] = 1
                  /\ ~connected
                  /\ firedWithSsh[g] => (termBy[g] = 1 /\ ssh_process = "terminated")
            /\ gmachine[g] # "m" => (discBy[g] = 0 /\ termBy[g] = 0)
            /\ raisedMsg[g] = error_message[g]
            /\ raisedMsg[g] \in ErrorMessages
            /\ raisedInside[g]
            /\ gst[g] = "entered" => alarmLeft = 0 \/ handler # g
            /\ gst[g] = "exited" =>
                  /\ exitedBy[g] \in {"normal", "exception"}
                  /\ exitSnap[g] = [alarm |-> 0, handler |-> SIG_DFL]

Wit_C9_ExpiryInterruptsAndResets ==
    \E g \in Guards :
        /\ handlerRuns[g] = 1
        /\ gmachine[g] = "m"
        /\ firedWithSsh[g]
        /\ termBy[g] = 1
        /\ gst[g] = "exited"
        /\ exitedBy[g] = "exception"
        /\ exc = error_message[g]

\* C10: the exit of a guard that installed the alarm cancels the pending
\* alarm and resets SIGALRM to SIG_DFL, whether the block ended normally or
\* by an exception; the exit of an inert guard changes neither, so an outer
\* guard whose alarm is pending still holds it after the inert guard's exit.
Thm_C10_ExitCancelsAlarm ==
    [][\A h \in Guards :
          (gst[h] = "entered" /\ gst'[h] = "exited") =>
             /\ exitedBy'[h] = (IF exc = "" THEN "normal" ELSE "exception")
             /\ IF SecondsTruthy(seconds[h])
                THEN alarmLeft' = 0 /\ handler' = SIG_DFL
                ELSE /\ alarmLeft' = alarmLeft
                     /\ handler' = handler
                     /\ \A g \in Guards : HoldsAlarm(g) => HoldsAlarm(g)']_vars

Wit_C10_ExitCancelsAlarm ==
    \E g \in Guards, h \in Guards :
        /\ HoldsAlarm(g)
        /\ gst[h] = "exited"
        /\ seconds[h] = NoneSec
        /\ exitedBy[h] = "exception"
        /\ exitSnap[h] = [alarm |-> alarmLeft, handler |-> g]

(***************************************************************************)
(* The allow-list over the test cases of one process: actions              *)
(***************************************************************************)
InitJournal ==
    /\ WaitIdle
    /\ TimeoutIdle
    /\ CaseIdle
    /\ RunnerIdle
    /\ RemoteIdle
    /\ allowed_messages = DefaultAllowedMessages
    /\ testNo = 1
    /\ phase = "body"
    /\ scan = NoScan
    /\ added = <<>>
    /\ allowCalls = 0

\* for p in patterns: self.allowed_messages.append(p), where
\* self.allowed_messages is the list object of the class attribute
AppendPatterns(ps) ==
    /\ allowed_messages' = allowed_messages \o ps
    /\ added' = added \o ps

\* allow_journal_messages(*patterns)
AllowJournalMessages(ps) ==
    /\ phase = "body"
    /\ allowCalls < MaxAllowCalls
    /\ AppendPatterns(ps)
    /\ allowCalls' = allowCalls + 1
    /\ UNCHANGED <<testNo, phase, scan>>
    /\ UNCHANGED <<remoteVars, runnerVars, waitVars, timeoutVars, caseVars>>

\* allow_hostkey_messages()
AllowHostkeyMessages ==
    /\ phase = "body"
    /\ allowCalls < MaxAllowCalls
    /\ AppendPatterns(HostkeyPatterns)
    /\ allowCalls' = allowCalls + 1
    /\ UNCHANGED <<testNo, phase, scan>>
    /\ UNCHANGED <<remoteVars, runnerVars, waitVars, timeoutVars, caseVars>>

\* allow_restart_journal_messages()
AllowRestartJournalMessages ==
    /\ phase = "body"
    /\ allowCalls < MaxAllowCalls
    /\ AppendPatterns(RestartPatterns)
    /\ allowCalls' = allowCalls + 1
    /\ UNCHANGED <<testNo, phase, scan>>
    /\ UNCHANGED <<remoteVars, runnerVars, waitVars, timeoutVars, caseVars>>

\* What check_journal_messages does to the allow-list and what it reports
CheckJournalEffect(messages, core, reach) ==
    /\ scan' = Scan(allowed_messages, messages, core, reach)
    /\ allowed_messages' = scan'.allowed

\* tearDown of a test that passed on a reachable machine
CheckJournalMessages(messages) ==
    /\ phase = "body"
    /\ CheckJournalEffect(messages, allow_core_dumps, TRUE)
    /\ phase' = "finished"
    /\ UNCHANGED <<testNo, added, allowCalls>>
    /\ UNCHANGED <<remoteVars, runnerVars, waitVars, timeoutVars, caseVars>>

\* tearDown of a test that failed or whose machine is unreachable
SkipCheck ==
    /\ phase = "body"
    /\ phase' = "finished"
    /\ UNCHANGED <<allowed_messages, testNo, scan, added, allowCalls>>
    /\ UNCHANGED <<remoteVars, runnerVars, waitVars, timeoutVars, caseVars>>

\* The runner goes on to the next test case, a new instance of the class
NextTestCase ==
    /\ phase = "finished"
    /\ testNo < MaxTests
    /\ testNo' = testNo + 1
    /\ phase' = "body"
    /\ scan' = NoScan
    /\ added' = <<>>
    /\ UNCHANGED <<allowed_messages, allowCalls>>
    /\ UNCHANGED <<remoteVars, runnerVars, waitVars, timeoutVars, caseVars>>

NextJournal ==
    \/ \E p \in TestPatterns : AllowJournalMessages(<<p>>)
    \/ AllowHostkeyMessages
    \/ AllowRestartJournalMessages
    \/ \E messages \in Journals : CheckJournalMessages(messages)
    \/ SkipCheck
    \/ NextTestCase

SpecJournal == InitJournal /\ [][NextJournal]_vars

(***************************************************************************)
(* The allow-list: properties                                              *)
(***************************************************************************)
\* Some way of matching pattern p consumes the whole of m (re.fullmatch)
MatchesEntireSpan(p, m) ==
    LET es == Ends(Compile(p), m, 1)
    IN  \E k \in 1..Len(es) : es[k] = Len(m) + 1

\* A stack-trace record precedes record j in the scanned messages
StackTraceBefore(j) ==
    \E i \in 1..(j - 1) : Strip(scan.messages[i]) = StackTraceRecord

\* The patterns in force when record j is looked at
PatternsAt(j) ==
    {scan.before[k] : k \in 1..Len(scan.before)}
        \cup (IF StackTraceBefore(j) THEN {CoreDumpPattern} ELSE {})

\* C2 as stated: the allow-list a test's scan starts from holds the defaults
\* and the patterns this test added, nothing that an earlier test added.
Cex_C2_AllowListPerTest ==
    scan.ran => scan.before = DefaultAllowedMessages \o added

\* C3 as stated: a non-empty trimmed record other than the stack-trace
\* record is flagged iff no pattern in force matches it over its entire span.
Cex_C3_FlaggedIffNoEntireMatch ==
    scan.ran =>
        \A j \in 1..Len(scan.messages) :
            LET m == Strip(scan.messages[j])
            IN  (m # <<>> /\ m # StackTraceRecord) =>
                   (scan.verdicts[j] = "anomalous"
                       <=> ~ \E p \in PatternsAt(j) : MatchesEntireSpan(p, m))

\* C4 as stated: a dumped-core record that follows the stack-trace record in
\* the same scan is accepted, as is the stack-trace record; a dumped-core
\* record with no stack-trace record before it in the scan is anomalous.
Cex_C4_SelfExtension ==
    scan.ran =>
        \A j \in 1..Len(scan.messages) :
            /\ Strip(scan.messages[j]) = StackTraceRecord
                  => scan.verdicts[j] # "anomalous"
            /\ Strip(scan.messages[j]) = CoreDumpRecord =>
                  IF StackTraceBefore(j)
                  THEN scan.verdicts[j] = "expected"
                  ELSE scan.verdicts[j] = "anomalous"

(***************************************************************************)
(* check_journal_messages on its own: specification SpecScan               *)
(***************************************************************************)
\* The allow-lists a test can have built when it calls the scan
AllowLists ==
    {DefaultAllowedMessages}
        \cup {DefaultAllowedMessages \o <<p>> : p \in TestPatterns}

InitScan ==
    /\ WaitIdle
    /\ TimeoutIdle
    /\ CaseIdle
    /\ RunnerIdle
    /\ RemoteIdle
    /\ allowed_messages \in AllowLists
    /\ testNo = 1
    /\ phase = "body"
    /\ scan = NoScan
    /\ added = <<>>
    /\ allowCalls = 0

\* check_journal_messages() called with the class allowing core dumps or
\* not, and the machine reachable or not when the copies are made
CheckJournalMessagesCall(messages, core, reach) ==
    /\ phase = "body"
    /\ CheckJournalEffect(messages, core, reach)
    /\ phase' = "scanned"
    /\ UNCHANGED <<testNo, added, allowCalls>>
    /\ UNCHANGED <<remoteVars, runnerVars, waitVars, timeoutVars, caseVars>>

NextScan ==
    \E messages \in Journals, core \in BOOLEAN, reach \in BOOLEAN :
       CheckJournalMessagesCall(messages, core, reach)

SpecScan == InitScan /\ [][NextScan]_vars

\* Record j of the scanned messages is matched by no pattern in force
UnmatchedRecord(j) ==
    LET m == Strip(scan.messages[j])
    IN  /\ m # <<>>
        /\ m # StackTraceRecord
        /\ \A p \in PatternsAt(j) : ~EntireMatch(p, m)

RECURSIVE UnmatchedUpTo(_)

\* The unmatched records among the first j, in sequence order
UnmatchedUpTo(j) ==
    IF j = 0 THEN <<>>
    ELSE UnmatchedUpTo(j - 1)
            \o (IF UnmatchedRecord(j) THEN <<Strip(scan.messages[j])>> ELSE <<>>)

\* What the scan does about its records, whatever it copies at the end:
\* every record gets a verdict, every unmatched record is printed, and the
\* Error is raised exactly when there is one and names the first of them
ScansEveryRecord ==
    /\ Len(scan.verdicts) = Len(scan.messages)
    /\ scan.printed = UnmatchedUpTo(Len(scan.messages))
    /\ scan.raised <=> scan.printed # <<>>
    /\ scan.raised => scan.first = Head(UnmatchedUpTo(Len(scan.messages)))
    /\ scan.raised => scan.events[Len(scan.events)] = "raise Error"
    /\ ~scan.raised => scan.events = <<>>

\* C19 as stated: the scan goes through every record and surfaces every
\* unmatched one, the error names the first unmatched record, and the
\* journal export and the crash-dump download both happen before the error
\* is raised.
Cex_C19_ScanContinuesAndExports ==
    scan.ran =>
       /\ ScansEveryRecord
       /\ scan.raised =>
             scan.events = <<"journalctl|gzip", "download_dir coredump", "raise Error">>

\* C19 amended: as stated, but the journal is exported only when the
\* machine is reachable, and the crash dumps are downloaded only when the
\* machine is reachable and the class does not allow core dumps; whatever is
\* copied is copied before the error is raised, export first.
Thm_C19_ScanContinuesAndExports ==
    scan.ran =>
       /\ ScansEveryRecord
       /\ scan.raised =>
             /\ (scan.reach /\ ~scan.core) =>
                   scan.events = <<"journalctl|gzip", "download_dir coredump",
                                   "raise Error">>
             /\ (scan.reach /\ scan.core) =>
                   scan.events = <<"journalctl|gzip", "raise Error">>
             /\ ~scan.reach => scan.events = <<"raise Error">>

Wit_C19_ScanContinuesAndExports ==
    /\ scan.ran
    /\ scan.verdicts = <<"anomalous", "anomalous">>
    /\ scan.printed[1] # scan.printed[2]
    /\ scan.first = scan.printed[1]
    /\ scan.events = <<"journalctl|gzip", "download_dir coredump", "raise Error">>

(***************************************************************************)
(* MachineCase under unittest.TestCase.run: actions                        *)
(***************************************************************************)
\* What the teardown scan of the modelled tests can read
TeardownJournals == SeqsUpTo({StackTraceRecord, <<"-- Reboot --", "a">>}, 1)

Init ==
    /\ WaitIdle
    /\ TimeoutIdle
    /\ RunnerIdle
    /\ RemoteIdle
    /\ allowed_messages = DefaultAllowedMessages
    /\ testNo = 1
    /\ phase = "created"
    /\ scan = NoScan
    /\ added = <<>>
    /\ allowCalls = 0
    /\ errors = <<>>
    /\ tmpdir = "none"
    /\ ssh_reachable = FALSE
    /\ journal_start = "None"
    /\ start_marker = FALSE
    /\ booted = "not called"
    /\ cleanups = <<>>
    /\ registered = <<>>
    /\ executed = <<>>
    /\ bodyOps = 0

\* The entries that registering the commands cmds, in this order, creates
Entries(cmds) ==
    [k \in 1..Len(cmds) |-> [id |-> Len(registered) + k, cmd |-> cmds[k]]]

\* A registration that puts the new action under the older ones.
PushBottom(st, e) == <<e>> \o st

\* self.addCleanup(function, *args): unittest appends to self._cleanups
Push(st, e) == Append(st, e)

RECURSIVE PushAll(_, _)

PushAll(st, es) == IF es = <<>> THEN st ELSE PushAll(Push(st, Head(es)), Tail(es))

\* The addCleanup calls of one method, in program order
AddCleanups(cmds) ==
    /\ cleanups' = PushAll(cleanups, Entries(cmds))
    /\ registered' = registered \o Entries(cmds)

\* An exception leaves the test method: unittest records it, and goes on
\* with tearDown
BodyFails ==
    /\ errors' = Append(errors, "body")
    /\ phase' = "teardown"
    /\ UNCHANGED <<cleanups, registered>>

\* A setUp that registers its cleanup actions before it waits for the machine.
SetUpRegistersBeforeBoot(outcome) ==
    /\ phase = "created"
    /\ tmpdir' = "exists"
    /\ ssh_reachable' = (outcome # "wait_boot raises")
    /\ journal_start' = IF outcome \in {"wait_boot raises", "journal_cursor raises"}
                        THEN "None" ELSE "cursor"
    /\ start_marker' = (outcome = "ok")
    /\ booted' = IF outcome = "wait_boot raises" THEN "raised" ELSE "ok"
    /\ AddCleanups(<<"logger end", "rm -rf coredump", "umount and rm vm_tmpdir">>)
    /\ IF outcome = "ok"
       THEN /\ phase' = "body"
            /\ errors' = errors
       ELSE /\ errors' = Append(errors, "setUp")
            /\ phase' = "cleanup"
    /\ UNCHANGED <<executed, bodyOps>>
    /\ UNCHANGED <<allowed_messages, testNo, scan, added, allowCalls>>
    /\ UNCHANGED <<remoteVars, runnerVars, waitVars, timeoutVars>>

\* A setUp that registers the end marker after its other cleanup actions.
SetUpRegistersEndMarkerLast(outcome) ==
    /\ phase = "created"
    /\ tmpdir' = "exists"
    /\ ssh_reachable' = (outcome # "wait_boot raises")
    /\ journal_start' = IF outcome \in {"wait_boot raises", "journal_cursor raises"}
                        THEN "None" ELSE "cursor"
    /\ start_marker' = (outcome = "ok")
    /\ booted' = IF outcome = "wait_boot raises" THEN "raised" ELSE "ok"
    /\ IF outcome = "ok"
       THEN /\ AddCleanups(<<"rm -rf coredump", "umount and rm vm_tmpdir", "logger end">>)
            /\ phase' = "body"
            /\ errors' = errors
       ELSE /\ errors' = Append(errors, "setUp")
            /\ phase' = "cleanup"
            /\ UNCHANGED <<cleanups, registered>>
    /\ UNCHANGED <<executed, bodyOps>>
    /\ UNCHANGED <<allowed_messages, testNo, scan, added, allowCalls>>
    /\ UNCHANGED <<remoteVars, runnerVars, waitVars, timeoutVars>>

\* setUp: mkdtemp, Machine(), wait_boot, journal_cursor, the start marker
\* and three addCleanup calls.  When setUp raises, unittest runs neither the
\* test method nor tearDown and goes straight to doCleanups.
SetUp(outcome) ==
    /\ phase = "created"
    /\ tmpdir' = "exists"
    /\ ssh_reachable' = (outcome # "wait_boot raises")
    /\ journal_start' = IF outcome \in {"wait_boot raises", "journal_cursor raises"}
                        THEN "None" ELSE "cursor"
    /\ start_marker' = (outcome = "ok")
    /\ booted' = IF outcome = "wait_boot raises" THEN "raised" ELSE "ok"
    /\ IF outcome = "ok"
       THEN /\ AddCleanups(<<"logger end", "rm -rf coredump", "umount and rm vm_tmpdir">>)
            /\ phase' = "body"
            /\ errors' = errors
       ELSE /\ errors' = Append(errors, "setUp")
            /\ phase' = "cleanup"
            /\ UNCHANGED <<cleanups, registered>>
    /\ UNCHANGED <<executed, bodyOps>>
    /\ UNCHANGED <<allowed_messages, testNo, scan, added, allowCalls>>
    /\ UNCHANGED <<remoteVars, runnerVars, waitVars, timeoutVars>>

\* sed_file(expr, path, apply_change_action)
SedFile(action, remote) ==
    /\ phase = "body"
    /\ bodyOps < MaxBodyOps
    /\ bodyOps' = bodyOps + 1
    /\ IF remote = "ok"
       THEN /\ AddCleanups((IF action # "None" THEN <<action>> ELSE <<>>)
                              \o <<"mv path.kite_test path">>)
            /\ UNCHANGED <<errors, phase>>
       ELSE BodyFails
    /\ UNCHANGED <<tmpdir, ssh_reachable, journal_start, start_marker, booted, executed>>
    /\ UNCHANGED <<allowed_messages, testNo, scan, added, allowCalls>>
    /\ UNCHANGED <<remoteVars, runnerVars, waitVars, timeoutVars>>

\* restore_dir(path, post_restore_action, reboot_safe)
RestoreDir(exists, action, reboot_safe, remote) ==
    /\ phase = "body"
    /\ bodyOps < MaxBodyOps
    /\ bodyOps' = bodyOps + 1
    /\ IF remote = "ok"
       THEN /\ IF ~exists
               THEN AddCleanups(<<"rm -rf path">>)
               ELSE AddCleanups((IF action # "None" THEN <<action>> ELSE <<>>)
                                   \o (IF reboot_safe
                                       THEN <<"rm -rf path && mv backup path">>
                                       ELSE <<"umount -lf path">>))
            /\ UNCHANGED <<errors, phase>>
       ELSE BodyFails
    /\ UNCHANGED <<tmpdir, ssh_reachable, journal_start, start_marker, booted, executed>>
    /\ UNCHANGED <<allowed_messages, testNo, scan, added, allowCalls>>
    /\ UNCHANGED <<remoteVars, runnerVars, waitVars, timeoutVars>>

\* restore_file(path, post_restore_action)
RestoreFile(exists, action, remote) ==
    /\ phase = "body"
    /\ bodyOps < MaxBodyOps
    /\ bodyOps' = bodyOps + 1
    /\ IF remote = "ok"
       THEN /\ IF exists
               THEN AddCleanups((IF action # "None" THEN <<action>> ELSE <<>>)
                                   \o <<"mv backup path">>)
               ELSE AddCleanups(<<"rm -rf path">>)
            /\ UNCHANGED <<errors, phase>>
       ELSE BodyFails
    /\ UNCHANGED <<tmpdir, ssh_reachable, journal_start, start_marker, booted, executed>>
    /\ UNCHANGED <<allowed_messages, testNo, scan, added, allowCalls>>
    /\ UNCHANGED <<remoteVars, runnerVars, waitVars, timeoutVars>>

\* write_file(path, content)
WriteFile(remote) ==
    /\ phase = "body"
    /\ bodyOps < MaxBodyOps
    /\ bodyOps' = bodyOps + 1
    /\ IF remote = "ok"
       THEN /\ AddCleanups(<<"rm -f path">>)
            /\ UNCHANGED <<errors, phase>>
       ELSE BodyFails
    /\ UNCHANGED <<tmpdir, ssh_reachable, journal_start, start_marker, booted, executed>>
    /\ UNCHANGED <<allowed_messages, testNo, scan, added, allowCalls>>
    /\ UNCHANGED <<remoteVars, runnerVars, waitVars, timeoutVars>>

\* The test method registers a cleanup action of its own
TestAddsCleanup ==
    /\ phase = "body"
    /\ bodyOps < MaxBodyOps
    /\ bodyOps' = bodyOps + 1
    /\ AddCleanups(<<"cleanup of the test">>)
    /\ UNCHANGED <<errors, tmpdir, ssh_reachable, journal_start, start_marker, booted, executed>>
    /\ UNCHANGED journalVars
    /\ UNCHANGED <<remoteVars, runnerVars, waitVars, timeoutVars>>

\* The machine stops answering while the test method runs
MachineLost ==
    /\ phase = "body"
    /\ ssh_reachable
    /\ ssh_reachable' = FALSE
    /\ UNCHANGED <<errors, tmpdir, journal_start, start_marker, booted, cleanups,
                   registered, executed, bodyOps>>
    /\ UNCHANGED journalVars
    /\ UNCHANGED <<remoteVars, runnerVars, waitVars, timeoutVars>>

\* The test method returns, or an assertion of it fails
BodyEnds(raises) ==
    /\ phase = "body"
    /\ IF raises THEN BodyFails
       ELSE /\ phase' = "teardown"
            /\ UNCHANGED <<errors, cleanups, registered>>
    /\ UNCHANGED <<tmpdir, ssh_reachable, journal_start, start_marker, booted, executed, bodyOps>>
    /\ UNCHANGED <<allowed_messages, testNo, scan, added, allowCalls>>
    /\ UNCHANGED <<remoteVars, runnerVars, waitVars, timeoutVars>>

\* A checkSuccess that does not look at the recorded errors.
CheckSuccessIgnored == TRUE

\* checkSuccess(): not any(e[1] for e in self._outcome.errors)
CheckSuccess == errors = <<>>

\* tearDown: scan the journal if the test passed and the machine answers,
\* then remove the temporary directory; the Error of the scan leaves
\* tearDown before shutil.rmtree
TearDown(messages) ==
    /\ phase = "teardown"
    /\ phase' = "cleanup"
    /\ IF CheckSuccess /\ ssh_reachable
       THEN /\ CheckJournalEffect(messages, allow_core_dumps, ssh_reachable)
            /\ IF scan'.raised
               THEN /\ errors' = Append(errors, "tearDown")
                    /\ tmpdir' = tmpdir
               ELSE /\ errors' = errors
                    /\ tmpdir' = "removed"
       ELSE /\ tmpdir' = "removed"
            /\ UNCHANGED <<allowed_messages, scan, errors>>
    /\ UNCHANGED <<ssh_reachable, journal_start, start_marker, booted, cleanups,
                   registered, executed, bodyOps>>
    /\ UNCHANGED <<testNo, added, allowCalls>>
    /\ UNCHANGED <<remoteVars, runnerVars, waitVars, timeoutVars>>

\* An unwind that gives up when a cleanup action raises.
CleanupStopsOnRaise(outcome) ==
    /\ phase = "cleanup"
    /\ cleanups # <<>>
    /\ executed' = Append(executed, cleanups[Len(cleanups)])
    /\ IF outcome = "raises"
       THEN /\ cleanups' = <<>>
            /\ errors' = Append(errors, "cleanup")
       ELSE /\ cleanups' = SubSeq(cleanups, 1, Len(cleanups) - 1)
            /\ errors' = errors
    /\ UNCHANGED <<tmpdir, ssh_reachable, journal_start, start_marker, booted,
                   registered, bodyOps>>
    /\ UNCHANGED journalVars
    /\ UNCHANGED <<remoteVars, runnerVars, waitVars, timeoutVars>>

\* One turn of unittest's doCleanups: pop the newest action and call it; an
\* exception of the action is recorded and the unwind goes on
DoCleanup(outcome) ==
    /\ phase = "cleanup"
    /\ cleanups # <<>>
    /\ executed' = Append(executed, cleanups[Len(cleanups)])
    /\ cleanups' = SubSeq(cleanups, 1, Len(cleanups) - 1)
    /\ errors' = IF outcome = "raises" THEN Append(errors, "cleanup") ELSE errors
    /\ UNCHANGED <<tmpdir, ssh_reachable, journal_start, start_marker, booted,
                   registered, bodyOps>>
    /\ UNCHANGED journalVars
    /\ UNCHANGED <<remoteVars, runnerVars, waitVars, timeoutVars>>

\* doCleanups finds the stack empty: the test case is over
FinishTest ==
    /\ phase = "cleanup"
    /\ cleanups = <<>>
    /\ phase' = "finished"
    /\ UNCHANGED <<allowed_messages, testNo, scan, added, allowCalls>>
    /\ UNCHANGED caseVars
    /\ UNCHANGED <<remoteVars, runnerVars, waitVars, timeoutVars>>

\* The runner takes the next test case, a new instance of the class
StartNextTest ==
    /\ phase = "finished"
    /\ testNo < MaxTests
    /\ testNo' = testNo + 1
    /\ phase' = "created"
    /\ scan' = NoScan
    /\ added' = <<>>
    /\ errors' = <<>>
    /\ tmpdir' = "none"
    /\ ssh_reachable' = FALSE
    /\ journal_start' = "None"
    /\ start_marker' = FALSE
    /\ booted' = "not called"
    /\ cleanups' = <<>>
    /\ registered' = <<>>
    /\ executed' = <<>>
    /\ bodyOps' = 0
    /\ UNCHANGED <<allowed_messages, allowCalls>>
    /\ UNCHANGED <<remoteVars, runnerVars, waitVars, timeoutVars>>

Next ==
    \/ \E outcome \in {"ok", "wait_boot raises", "journal_cursor raises",
                       "start marker raises"} : SetUp(outcome)
    \/ \E action \in {"None", "apply_change_action"}, remote \in {"ok", "raises"} :
          SedFile(action, remote)
    \/ \E exists \in BOOLEAN, action \in {"None", "post_restore_action"},
          reboot_safe \in BOOLEAN, remote \in {"ok", "raises"} :
          RestoreDir(exists, action, reboot_safe, remote)
    \/ \E exists \in BOOLEAN, action \in {"None", "post_restore_action"},
          remote \in {"ok", "raises"} :
          RestoreFile(exists, action, remote)
    \/ \E remote \in {"ok", "raises"} : WriteFile(remote)
    \/ TestAddsCleanup
    \/ MachineLost
    \/ \E raises \in BOOLEAN : BodyEnds(raises)
    \/ \E messages \in TeardownJournals : TearDown(messages)
    \/ \E outcome \in {"ok", "raises"} : DoCleanup(outcome)
    \/ FinishTest
    \/ StartNextTest

Spec == Init /\ [][Next]_vars

(***************************************************************************)
(* The cleanup stack: properties                                           *)
(***************************************************************************)
RECURSIVE Reverse(_)

Reverse(q) == IF q = <<>> THEN <<>> ELSE Append(Reverse(Tail(q)), Head(q))

\* C1: the unwind executes the registered cleanup actions in exactly the
\* reverse of their registration order, each of them exactly once, whether
\* or not actions raise: what has been executed so far, followed by the
\* reverse of what is still on the stack, is the reverse of what was
\* registered, and at the end of the test nothing is left on the stack.
Thm_C1_ReverseOrderExactlyOnce ==
    /\ phase \in {"cleanup", "finished"} =>
          /\ executed \o Reverse(cleanups) = Reverse(registered)
          /\ \A i \in 1..Len(executed), j \in 1..Len(executed) :
                executed[i].id = executed[j].id => i = j
    /\ phase = "finished" =>
          /\ cleanups = <<>>
          /\ executed = Reverse(registered)
    /\ phase \in {"created", "body", "teardown"} => executed = <<>>

Wit_C1_ReverseOrderExactlyOnce ==
    /\ phase = "finished"
    /\ Len(registered) >= 5
    /\ executed = Reverse(registered)
    /\ Len(errors) >= 2
    /\ errors[1] = "cleanup"
    /\ \E i \in 1..Len(registered) : registered[i].cmd = "mv backup path"

(***************************************************************************)
(* tearDown and setUp: properties                                          *)
(***************************************************************************)
\* C14: tearDown runs the journal scan if and only if no earlier phase of
\* the test recorded an error and the machine is reachable at that moment; a
\* test with a setUp or body error, or with an unreachable machine, has no
\* scan; and the Error of the scan is recorded as an error of tearDown.
Thm_C14_ScanIffCleanAndReachable ==
    /\ [](scan.ran =>
             /\ phase \in {"cleanup", "finished"}
             /\ ssh_reachable
             /\ \A i \in 1..Len(errors) : errors[i] \notin {"setUp", "body"})
    /\ [][(phase = "teardown" /\ phase' = "cleanup") =>
             /\ scan'.ran <=> (errors = <<>> /\ ssh_reachable)
             /\ scan'.raised => errors' = Append(errors, "tearDown")
             /\ ~scan'.raised => errors' = errors]_vars

Wit_C14_ScanIffCleanAndReachable ==
    /\ phase = "finished"
    /\ scan.ran
    /\ scan.raised
    /\ errors # <<>>
    /\ errors[1] = "tearDown"
    /\ bodyOps > 0

\* C15: a test whose setUp created the local temporary directory has had it
\* removed when the test is finished, whatever the phases did.
Cex_C15_TmpdirRemoved ==
    (phase = "finished" /\ tmpdir # "none") => tmpdir = "removed"

\* C16: when wait_boot raises in setUp, the test method never runs, the
\* error is recorded against setUp, no journal cursor is captured, no start
\* marker is emitted and no cleanup action is registered or executed.
Thm_C16_WaitBootFailure ==
    booted = "raised" =>
       /\ phase \in {"cleanup", "finished"}
       /\ errors = <<"setUp">>
       /\ journal_start = "None"
       /\ ~start_marker
       /\ registered = <<>>
       /\ cleanups = <<>>
       /\ executed = <<>>
       /\ bodyOps = 0
       /\ ~scan.ran

Wit_C16_WaitBootFailure ==
    /\ booted = "raised"
    /\ phase = "finished"
    /\ testNo = 2

(***************************************************************************)
(* sed_file, restore_dir, restore_file: properties                         *)
(***************************************************************************)
\* The actions a caller hands to sed_file, restore_dir and restore_file
CallerActions == {"apply_change_action", "post_restore_action"}

\* The cleanup actions that put the original content back
RestoreCommands ==
    {"mv path.kite_test path", "umount -lf path",
     "rm -rf path && mv backup path", "mv backup path"}

\* The position in the unwind of the action registered as number id, 0 when
\* it has not been executed
ExecutedAt(id) ==
    IF \E k \in 1..Len(executed) : executed[k].id = id
    THEN CHOOSE k \in 1..Len(executed) : executed[k].id = id
    ELSE 0

BackupReaders ==
    {"mv backup path", "rm -rf path && mv backup path", "umount -lf path"}

\* C21: whatever restore_file and restore_dir calls the test makes after
\* setUp, the unwind runs every cleanup action that reads a backup under
\* vm_tmpdir before the action of setUp that unmounts and removes
\* vm_tmpdir, and the end marker of the test is the last cleanup action
\* executed.
Thm_C21_UnwindOrderOfSetUpActions ==
    /\ \A i \in 1..Len(registered), j \in 1..Len(registered) :
          (/\ registered[i].cmd = "umount and rm vm_tmpdir"
           /\ registered[j].cmd \in BackupReaders
           /\ ExecutedAt(i) # 0) =>
              /\ ExecutedAt(j) # 0
              /\ ExecutedAt(j) < ExecutedAt(i)
    /\ \A k \in 1..Len(executed) :
          executed[k].cmd = "logger end" =>
             /\ k = Len(registered)
             /\ cleanups = <<>>
    /\ (phase = "finished" /\ registered # <<>>) =>
          executed[Len(executed)].cmd = "logger end"

Wit_C21_UnwindOrderOfSetUpActions ==
    /\ phase = "finished"
    /\ Len(executed) = 5
    /\ executed[1].cmd = "rm -rf path && mv backup path"
    /\ executed[2].cmd = "mv backup path"
    /\ executed[3].cmd = "umount and rm vm_tmpdir"
    /\ executed[5].cmd = "logger end"

(***************************************************************************)
(* TapRunner: definitions                                                  *)
(***************************************************************************)
\* A unittest.TestCase, and a unittest.TestSuite of test cases and suites
Case(i) == [kind |-> "case", id |-> i, tests |-> <<>>]

Suite(ts) == [kind |-> "suite", id |-> 0, tests |-> ts]

\* The test cases a, a + 1, ..., b
Cases(a, b) == [k \in 1..(b - a + 1) |-> Case(a + k - 1)]

\* What run can be handed: one test case, a suite, suites of suites.  The
\* test cases are numbered in the order in which iteration meets them.
Testables ==
    {Case(1)}
        \cup {Suite(Cases(1, n)) : n \in 0..MaxSuite}
        \cup {Suite(<<Suite(Cases(1, k)), Suite(Cases(k + 1, n))>>) :
                 k \in 0..1, n \in 1..MaxSuite}
        \cup {Suite(<<Case(1), Suite(<<Suite(Cases(2, n))>>)>>) : n \in 1..MaxSuite}

RECURSIVE Collapse(_, _), CollapseEach(_, _)

\* collapse(test, tests): append test if it is a test case, else collapse
\* every member of it
Collapse(test, acc) ==
    IF test.kind = "case" THEN Append(acc, test.id)
    ELSE CollapseEach(test.tests, acc)

\* for t in test: collapse(t, tests)
CollapseEach(ts, acc) ==
    IF ts = <<>> THEN acc
    ELSE CollapseEach(Tail(ts), Collapse(Head(ts), acc))

\* What a test case does when unittest runs it:
\*   setUp      returns, raises, or skips the test
\*   subSkips   the subtests of the test method that call skipTest
\*   body       how the test method ends; "unexpected success" is a method
\*              marked expectedFailure that returns; "Exception escapes" is
\*              an exception that gets out of unittest.TestSuite.run
\*   tearDown, cleanups   whether they raise
Behaviours ==
    {[setUp |-> su, subSkips |-> 0, body |-> "not run", tearDown |-> "not run",
      cleanups |-> c] : su \in {"raises", "skips"}, c \in {"ok", "raises"}}
        \cup {[setUp |-> "ok", subSkips |-> k, body |-> bo, tearDown |-> td,
               cleanups |-> c] :
                 k \in 0..MaxSubSkips,
                 bo \in {"returns", "raises", "assertion fails", "skipTest",
                         "unexpected success"},
                 td \in {"ok", "raises"}, c \in {"ok", "raises"}}
        \cup {[setUp |-> "ok", subSkips |-> k, body |-> bo, tearDown |-> "not run",
               cleanups |-> "not run"] :
                 k \in 0..MaxSubSkips,
                 bo \in {"KeyboardInterrupt", "Exception escapes"}}

\* unittest.TestSuite([test]).run(result) for a MachineCase: what result
\* holds afterwards, how many cleanup actions the test registered and how
\* many of them doCleanups called, and the exception that got out
TestSuiteRun(b) ==
    LET registered_ == IF b.setUp = "ok"
                       THEN Len(<<"logger end", "rm -rf coredump",
                                  "umount and rm vm_tmpdir">>)
                       ELSE 0
        one(c) == IF c THEN 1 ELSE 0
    IN  [skipped |-> b.subSkips + one(b.setUp = "skips") + one(b.body = "skipTest"),
         errors |-> one(b.setUp = "raises") + one(b.body = "raises")
                       + one(b.tearDown = "raises") + one(b.cleanups = "raises"),
         failures |-> one(b.body = "assertion fails"),
         unexpectedSuccesses |-> one(b.body = "unexpected success"),
         escaped |-> IF b.body = "KeyboardInterrupt" THEN "KeyboardInterrupt"
                     ELSE IF b.body = "Exception escapes" THEN "Exception"
                     ELSE "None",
         registered |-> registered_,
         executed |-> IF b.cleanups = "not run" THEN 0 ELSE registered_]

\* result.wasSuccessful()
WasSuccessful(r) == r.failures = 0 /\ r.errors = 0 /\ r.unexpectedSuccesses = 0

\* A runOne whose except branches return the result as it is.
RunOneDropsEscaped(test, b) ==
    LET r == TestSuiteRun(b)
    IN  IF r.escaped # "None"
        THEN [result |-> r, line |-> "none"]
        ELSE [result |-> r,
              line |-> IF r.skipped > 0 THEN "skipped"
                       ELSE IF WasSuccessful(r) THEN "succeeded"
                       ELSE "failed"]

\* runOne(test): the result it returns and the "# Result" line it prints
RunOne(test, b) ==
    LET r == TestSuiteRun(b)
    IN  IF r.escaped # "None"
        THEN [result |-> [r EXCEPT !.errors = @ + 1], line |-> "none"]
        ELSE [result |-> r,
              line |-> IF r.skipped > 0 THEN "skipped"
                       ELSE IF WasSuccessful(r) THEN "succeeded"
                       ELSE "failed"]

(***************************************************************************)
(* TapRunner.run: actions, specification SpecRunner                        *)
(***************************************************************************)
InitRunner ==
    /\ WaitIdle
    /\ TimeoutIdle
    /\ JournalIdle
    /\ CaseIdle
    /\ RemoteIdle
    /\ testable \in Testables
    /\ tests = <<>>
    /\ test_count = 0
    /\ failures = 0
    /\ skips = <<>>
    /\ rpc = "start"
    /\ exitCode = -1
    /\ summary = NoSummary
    /\ report = <<>>

\* run(testable) up to the while loop
RunCollapse ==
    /\ rpc = "start"
    /\ tests' = Collapse(testable, <<>>)
    /\ test_count' = Len(tests')
    /\ failures' = 0
    /\ skips' = <<>>
    /\ rpc' = "loop"
    /\ UNCHANGED <<testable, exitCode, summary, report>>
    /\ UNCHANGED <<remoteVars, waitVars, timeoutVars, journalVars, caseVars>>

\* One turn of the while loop: test = tests.pop(0); result = runOne(test);
\* count it
RunNextTest(b) ==
    /\ rpc = "loop"
    /\ tests # <<>>
    /\ LET test == Head(tests)
           one == RunOne(test, b)
       IN  /\ tests' = Tail(tests)
           /\ failures' = IF ~WasSuccessful(one.result) THEN failures + 1 ELSE failures
           /\ skips' = skips \o [k \in 1..one.result.skipped |-> test]
           /\ report' = Append(report,
                               [test |-> test, setUp |-> b.setUp, body |-> b.body,
                                result |-> one.result, line |-> one.line,
                                counted |-> failures' # failures])
    /\ UNCHANGED <<testable, test_count, rpc, exitCode, summary>>
    /\ UNCHANGED <<remoteVars, waitVars, timeoutVars, journalVars, caseVars>>

\* A report whose FAILED line shows the number of tests.
RunReportShowsTestCount ==
    /\ rpc = "loop"
    /\ tests = <<>>
    /\ rpc' = "done"
    /\ IF Len(skips) = test_count
       THEN /\ summary' = [kind |-> "SKIP", shown |-> Len(skips)]
            /\ exitCode' = 77
       ELSE IF failures # 0
       THEN /\ summary' = [kind |-> "FAILED", shown |-> test_count]
            /\ exitCode' = 1
       ELSE /\ summary' = [kind |-> "PASSED", shown |-> test_count]
            /\ exitCode' = 0
    /\ UNCHANGED <<testable, tests, test_count, failures, skips, report>>
    /\ UNCHANGED <<remoteVars, waitVars, timeoutVars, journalVars, caseVars>>

\* The end of run: the line written to stdout (what it is about and the
\* number of tests or of skip entries it shows) and the value returned
RunReport ==
    /\ rpc = "loop"
    /\ tests = <<>>
    /\ rpc' = "done"
    /\ IF Len(skips) = test_count
       THEN /\ summary' = [kind |-> "SKIP", shown |-> Len(skips)]
            /\ exitCode' = 77
       ELSE IF failures # 0
       THEN /\ summary' = [kind |-> "FAILED", shown |-> failures]
            /\ exitCode' = 1
       ELSE /\ summary' = [kind |-> "PASSED", shown |-> test_count]
            /\ exitCode' = 0
    /\ UNCHANGED <<testable, tests, test_count, failures, skips, report>>
    /\ UNCHANGED <<remoteVars, waitVars, timeoutVars, journalVars, caseVars>>

NextRunner ==
    \/ RunCollapse
    \/ \E b \in Behaviours : RunNextTest(b)
    \/ RunReport

SpecRunner == InitRunner /\ [][NextRunner]_vars

(***************************************************************************)
(* TapRunner: properties                                                   *)
(***************************************************************************)
RECURSIVE CaseIds(_)

\* The test cases found anywhere inside a testable
CaseIds(test) ==
    IF test.kind = "case" THEN {test.id}
    ELSE UNION {CaseIds(test.tests[k]) : k \in 1..Len(test.tests)}

\* N: the number of test cases handed to run
NumTests == Cardinality(CaseIds(testable))

\* The tests run so far whose result carries a skip entry
SkippedTests == {i \in 1..Len(report) : report[i].result.skipped > 0}

\* The tests run so far whose result holds an error, a failure or an
\* unexpected success
FailedTests ==
    {i \in 1..Len(report) :
        \/ report[i].result.errors > 0
        \/ report[i].result.failures > 0
        \/ report[i].result.unexpectedSuccesses > 0}

\* C11 as stated: with N tests of which S are skipped and F are not
\* successful, run returns 77 if and only if S = N, otherwise 1 if and only
\* if F > 0, otherwise 0.
Cex_C11_ExitCode ==
    rpc = "done" =>
       exitCode = IF Cardinality(SkippedTests) = NumTests THEN 77
                  ELSE IF Cardinality(FailedTests) > 0 THEN 1
                  ELSE 0

\* C12 as stated: the last line of run shows exactly N tests, whichever of
\* the three outcomes it reports.
Cex_C12_ReportShowsAllTests ==
    rpc = "done" => summary.shown = NumTests

\* C12 amended: the last line shows N tests when it reports that all N
\* passed, lists N skip entries when it reports the skips, and shows F, the
\* number of tests that were not successful, when it reports failures.
Thm_C12_ReportShowsAllTests ==
    rpc = "done" =>
       /\ summary.kind \in {"SKIP", "FAILED", "PASSED"}
       /\ summary.kind = "PASSED" =>
             /\ summary.shown = NumTests
             /\ FailedTests = {}
             /\ exitCode = 0
       /\ summary.kind = "SKIP" =>
             /\ summary.shown = NumTests
             /\ summary.shown = Len(skips)
             /\ exitCode = 77
       /\ summary.kind = "FAILED" =>
             /\ summary.shown = Cardinality(FailedTests)
             /\ summary.shown >= 1
             /\ exitCode = 1

Wit_C12_ReportShowsAllTests ==
    /\ rpc = "done"
    /\ NumTests = 2
    /\ summary = [kind |-> "FAILED", shown |-> 1]
    /\ report[1].line = "succeeded"
    /\ report[2].line = "failed"

\* C13 as stated: a test whose body raises has every cleanup action it
\* registered executed, is reported by runOne with the line "failed", and
\* makes run return 1 unless every test of the run was skipped.
Cex_C13_BodyFailureEndToEnd ==
    rpc = "done" =>
       \A i \in 1..Len(report) :
          report[i].body \in {"raises", "assertion fails"} =>
             /\ report[i].result.executed = report[i].result.registered
             /\ report[i].line = "failed"
             /\ Cardinality(SkippedTests) # NumTests => exitCode = 1

\* C17: run executes every test case of the testable exactly once and in
\* the order of the flattened collection, one per turn of its loop; an
\* exception or interrupt that gets out of a test is recorded as an error
\* of that test and counts as one failure; the later tests still run, and
\* whether a test is counted as failed depends on its own result only.
Thm_C17_EachTestOnceInOrder ==
    /\ rpc # "start" =>
          /\ [i \in 1..Len(report) |-> report[i].test] \o tests
                = [i \in 1..NumTests |-> i]
          /\ test_count = NumTests
          /\ failures = Cardinality({i \in 1..Len(report) : report[i].counted})
    /\ rpc = "done" => Len(report) = NumTests
    /\ \A i \in 1..Len(report) :
          /\ report[i].result.escaped # "None" =>
                /\ report[i].result.errors >= 1
                /\ report[i].counted
          /\ report[i].counted <=> i \in FailedTests

Wit_C17_EachTestOnceInOrder ==
    /\ rpc = "done"
    /\ testable = Suite(<<Suite(Cases(1, 1)), Suite(Cases(2, 2))>>)
    /\ report[1].result.escaped = "KeyboardInterrupt"
    /\ report[2].line = "succeeded"
    /\ failures = 1
    /\ exitCode = 1

\* C18 as stated: runOne prints exactly one result line for every test,
\* "succeeded", "skipped: <reason>" or "failed", on every path, and a test
\* printed as skipped or succeeded is not counted as a failure by run.
Cex_C18_OneResultLine ==
    \A i \in 1..Len(report) :
       /\ report[i].line \in {"succeeded", "skipped", "failed"}
       /\ report[i].line \in {"succeeded", "skipped"} => ~report[i].counted

(***************************************************************************)
(* restore_file against the machine's files: specification SpecRestore     *)
(***************************************************************************)
\* What the paths hold before the test, and what the test writes to them
InitialContents == {"c0", "absent"}

WrittenContents == {"c1", "c2"}

InitRestore ==
    /\ WaitIdle
    /\ TimeoutIdle
    /\ RunnerIdle
    /\ allowed_messages = DefaultAllowedMessages
    /\ testNo = 1
    /\ phase = "created"
    /\ scan = NoScan
    /\ added = <<>>
    /\ allowCalls = 0
    /\ CaseIdle
    /\ files \in {f \in [Paths \cup BackupPaths -> InitialContents] :
                     \A b \in BackupPaths : f[b] = "absent"}
    /\ original = [p \in Paths |-> "untracked"]

\* The entries that registering the commands cmds about path creates
EntriesAbout(cmds, path) ==
    [k \in 1..Len(cmds) |->
        [id |-> Len(registered) + k, cmd |-> cmds[k], path |-> path]]

\* restore_file(path): test -e, then either cp -a to the backup and the
\* registration of the mv back, or the registration of rm -rf
RestoreFileOf(path) ==
    /\ phase = "body"
    /\ bodyOps < MaxFileOps
    /\ bodyOps' = bodyOps + 1
    /\ LET exists == files[path] # "absent"
           cmds == IF exists THEN <<"mv backup path">> ELSE <<"rm -rf path">>
       IN  /\ files' = IF exists
                       THEN [files EXCEPT ![Backup(path)] = files[path]]
                       ELSE files
           /\ cleanups' = PushAll(cleanups, EntriesAbout(cmds, path))
           /\ registered' = registered \o EntriesAbout(cmds, path)
    /\ original' = IF original[path] = "untracked"
                   THEN [original EXCEPT ![path] = files[path]]
                   ELSE original
    /\ UNCHANGED <<errors, tmpdir, ssh_reachable, journal_start, start_marker,
                   booted, executed>>
    /\ UNCHANGED journalVars
    /\ UNCHANGED <<runnerVars, waitVars, timeoutVars>>

\* The test replaces the file at path by a new one
TestWritesFile(path, content) ==
    /\ phase = "body"
    /\ bodyOps < MaxFileOps
    /\ bodyOps' = bodyOps + 1
    /\ files' = [files EXCEPT ![path] = content]
    /\ UNCHANGED <<errors, tmpdir, ssh_reachable, journal_start, start_marker,
                   booted, cleanups, registered, executed>>
    /\ UNCHANGED original
    /\ UNCHANGED journalVars
    /\ UNCHANGED <<runnerVars, waitVars, timeoutVars>>

\* The test removes the file at path
TestRemovesFile(path) ==
    /\ phase = "body"
    /\ bodyOps < MaxFileOps
    /\ files[path] # "absent"
    /\ bodyOps' = bodyOps + 1
    /\ files' = [files EXCEPT ![path] = "absent"]
    /\ UNCHANGED <<errors, tmpdir, ssh_reachable, journal_start, start_marker,
                   booted, cleanups, registered, executed>>
    /\ UNCHANGED original
    /\ UNCHANGED journalVars
    /\ UNCHANGED <<runnerVars, waitVars, timeoutVars>>

\* machine.execute of a registered cleanup command: the files afterwards,
\* and whether the command fails
RemoteExecute(e) ==
    IF e.cmd = "mv backup path"
    THEN IF files[Backup(e.path)] # "absent"
         THEN [files |-> [files EXCEPT ![e.path] = files[Backup(e.path)],
                                       ![Backup(e.path)] = "absent"],
               raised |-> FALSE]
         ELSE [files |-> files, raised |-> TRUE]
    ELSE IF e.cmd = "rm -rf path"
    THEN [files |-> [files EXCEPT ![e.path] = "absent"], raised |-> FALSE]
    ELSE IF e.cmd = "umount and rm vm_tmpdir"
    THEN [files |-> [p \in DOMAIN files |->
                        IF p \in BackupPaths THEN "absent" ELSE files[p]],
          raised |-> FALSE]
    ELSE [files |-> files, raised |-> FALSE]

\* One turn of doCleanups with the command run on the machine: the action
\* raises when its command fails
DoCleanupOnMachine ==
    /\ phase = "cleanup"
    /\ cleanups # <<>>
    /\ LET e == cleanups[Len(cleanups)]
           done == RemoteExecute(e)
       IN  /\ executed' = Append(executed, e)
           /\ cleanups' = SubSeq(cleanups, 1, Len(cleanups) - 1)
           /\ files' = done.files
           /\ errors' = IF done.raised THEN Append(errors, "cleanup") ELSE errors
    /\ UNCHANGED <<tmpdir, ssh_reachable, journal_start, start_marker, booted,
                   registered, bodyOps>>
    /\ UNCHANGED original
    /\ UNCHANGED journalVars
    /\ UNCHANGED <<runnerVars, waitVars, timeoutVars>>

NextRestore ==
    \/ \E outcome \in {"ok", "wait_boot raises"} : SetUp(outcome)
    \/ \E path \in Paths : RestoreFileOf(path)
    \/ \E path \in Paths, content \in WrittenContents : TestWritesFile(path, content)
    \/ \E path \in Paths : TestRemovesFile(path)
    \/ \E raises \in BOOLEAN : BodyEnds(raises)
    \/ \E messages \in {<<>>} : TearDown(messages)
    \/ DoCleanupOnMachine
    \/ FinishTest

SpecRestore == InitRestore /\ [][NextRestore]_vars

\* C22 as stated: whatever restore_file calls and file modifications a test
\* makes, once the cleanup stack is unwound every path handed to
\* restore_file is back in the state it had at the first restore_file call
\* for it: the same content if it existed, absent if it did not.
Cex_C22_RestoreFileRoundTrip ==
    phase = "finished" =>
       \A p \in Paths : original[p] # "untracked" => files[p] = original[p]

====
